---- MODULE Spec2Model ----
(***************************************************************************)
(* LockFreeRingBuffer<Event, Size> of src/core/ring_buffer.h, used by one  *)
(* producer thread (try_push, is_full), one consumer thread (try_pop,      *)
(* is_empty) and one statistics thread (size / utilization / capacity).    *)
(*                                                                         *)
(* Every atomic load and store of head_ / tail_ is one step.  The copy of  *)
(* an Event into or out of a slot is not atomic in the code (a 64-byte     *)
(* memberwise copy); it is modelled as two steps, one for timestamp_us and *)
(* one for the rest of the record (data).  The load of a thread's own      *)
(* counter is folded into the step that begins the call: no other thread   *)
(* writes that counter, so the fold hides no interleaving.                 *)
(*                                                                         *)
(* The acquire/release pairs of the code order each slot access before the *)
(* counter store that publishes it, so the threads' steps are interleaved  *)
(* in program order, and a load of the other thread's counter returns the  *)
(* value last stored.  (An older value, which the C++ memory model also    *)
(* allows such a load to return, only makes try_push see less free space   *)
(* and try_pop see fewer items than there are.)                            *)
(*                                                                         *)
(* The module also holds Event::is_valid (src/core/event.h), ContextHistory *)
(* (src/core/context.h) and ContextTracker (src/core/context_tracker.h)    *)
(* with the overlay it drives (src/core/overlay.h) and the title parser.   *)
(* Each has its own specification; the variables of the others keep their  *)
(* initial values in it.                                                   *)
(***************************************************************************)
EXTENDS Integers, Naturals, Sequences, FiniteSets, TLC

\* ---------------------------------------------------------------- bounds
\* Size = 2^SizeLog2 (the template parameter Size, a power of two >= 2).
SizeLog2 == 2
\* Number of try_push calls the producer issues.
MaxPushCalls == 6
\* head_ and tail_ are uint64_t; TLC's integers are 32 bits wide, so the
\* counters are modelled CounterBits wide.  No run within MaxPushCalls comes
\* near the wrap point; the width only fixes the value of an unsigned
\* subtraction that underflows.
CounterBits == 16
\* With two producers: try_push calls of both together, successful pops.
MaxTwoProducerCalls == 3
MaxTwoProducerPops == 4
\* With is_full, is_empty and capacity calls: try_push calls of the producer.
MaxQueryPushCalls == 4
\* Counter wrap: how far below 2^CounterBits head_ and tail_ stand when the
\* run begins.
WrapDistance == 3
\* Two runs side by side: try_push calls of each run.
MaxTwinPushCalls == 4
\* ContextHistory: push calls, push calls that carry the app name "Code.exe"
\* (every other push carries "chrome.exe"), clear calls.
MaxHistoryPushes == 23
MaxCodePushes == 2
MaxHistoryClears == 1
\* ContextTracker: steps of the clock, and input events (keystrokes, clicks,
\* mouse moves of one pixel) reported to the tracker.
MaxTicks == 2
MaxInputs == 1

Size == 2 ^ SizeLog2
CounterModulus == 2 ^ CounterBits
Slots == 0 .. (Size - 1)
\* Sample values for the fields of an Event other than its timestamp.
Payloads == {0, 1}

\* ---------------------------------------------------------------- Event
\* An Event: timestamp_us and the remaining fields (event_type .. data).
\* The producer's clock is monotonic: the n-th call carries timestamp n.
MakeEvent(ts, d) == [timestamp_us |-> ts, data |-> d]

\* Contents of a slot, or of a caller's Event, that nothing has written yet.
Uninitialized == { MakeEvent(0, d) : d \in Payloads }

\* ---------------------------------------------------------------- arithmetic
\* uint64_t addition and subtraction (wrapping).
Add64(a, b) == (a + b) % CounterModulus
\* Variant of Sub64: the difference as an integer, not reduced.
SubUnreduced(a, b) == a - b
Sub64(a, b) == (a - b + CounterModulus) % CounterModulus

\* Bitwise AND of two naturals.
RECURSIVE BitAnd(_, _)
BitAnd(a, b) ==
    IF a = 0 \/ b = 0 THEN 0
    ELSE (a % 2) * (b % 2) + 2 * BitAnd(a \div 2, b \div 2)

\* ---------------------------------------------------------------- expressions of the code
\* try_push: index = current_head & (Size - 1)
\* Variant of PushSlot: the index is taken from next_head.
PushSlotOfNextHead(current_head) == BitAnd(Add64(current_head, 1), Size - 1)
PushSlot(current_head) == BitAnd(current_head, Size - 1)

\* Variant of PopSlot: the index of the slot after tail.
PopSlotOffByOne(current_tail) == BitAnd(Add64(current_tail, 1), Size - 1)
\* try_pop: index = current_tail & (Size - 1)
PopSlot(current_tail) == BitAnd(current_tail, Size - 1)

\* The memberwise copy of an Event (buffer_[index] = item, item = buffer_[index]),
\* one part at a time.
CopyTimestamp(dst, src) == [dst EXCEPT !.timestamp_us = src.timestamp_us]
\* Variant of CopyData: the copy leaves the fields after the timestamp out.
CopyDataDropped(dst, src) == dst
CopyData(dst, src) == [dst EXCEPT !.data = src.data]

\* next_head = current_head + 1
\* Variant of NextHead: head advanced by 2.
NextHeadSkip(current_head) == Add64(current_head, 2)
NextHead(current_head) == Add64(current_head, 1)

\* Variant of PushFull: if (current_head - current_tail > Size).
PushFullLate(next_head, current_tail) ==
    Sub64(Sub64(next_head, 1), current_tail) > Size
\* Variant of PushFull: > in place of >=.
PushFullStrict(next_head, current_tail) == Sub64(next_head, current_tail) > Size
\* if (next_head - current_tail >= Size) return false;
PushFull(next_head, current_tail) == Sub64(next_head, current_tail) >= Size

\* Where try_push continues after the full check: return false, or go on to
\* the slot write.
\* Variant of AfterFullCheck: wait for space, re-reading tail_.
AfterFullCheckSpin(full) == IF full THEN "load_tail" ELSE "write_ts"
AfterFullCheck(full) == IF full THEN "idle" ELSE "write_ts"

\* Variant of PopEmpty: the buffer is never taken to be empty.
PopEmptyNever(current_tail, current_head) == FALSE
\* Variant of PopEmpty: > in place of ==.
PopEmptyGreater(current_tail, current_head) == current_tail > current_head
\* if (current_tail == current_head) return false;
PopEmpty(current_tail, current_head) == current_tail = current_head

\* Variants of NextTail: tail advanced by 2, tail not advanced.
NextTailSkip(current_tail) == Add64(current_tail, 2)
NextTailStuck(current_tail) == current_tail
\* tail_.store(current_tail + 1)
NextTail(current_tail) == Add64(current_tail, 1)

\* is_full(): (current_head + 1 - current_tail) >= Size
\* Variant of IsFull: the + 1 left out.
IsFullWithoutNext(current_head, current_tail) ==
    Sub64(current_head, current_tail) >= Size
IsFull(current_head, current_tail) ==
    Sub64(Add64(current_head, 1), current_tail) >= Size

\* is_empty(): current_tail == current_head
IsEmpty(current_tail, current_head) == current_tail = current_head

\* capacity(): return Size
Capacity == Size

\* What is_full or is_empty returned, with the number of successful calls of
\* the caller's own operation (try_push, try_pop) at that moment.
QueryResult(result, count) ==
    [result |-> IF result THEN "true" ELSE "false", count |-> count]
NoQuery == [result |-> "none", count |-> 0]

\* size(): static_cast<size_t>(current_head - current_tail)
SizeOf(current_head, current_tail) == Sub64(current_head, current_tail)

\* utilization(): float(size()) / float(Size), kept as an exact fraction.
Utilization(sz) == [num |-> sz, den |-> Size]

\* ---------------------------------------------------------------- Event::is_valid
\* timestamp_us is a uint64_t near 2 * 10^15, wider than TLC's integers; it is
\* kept as two decimal limbs, value = hi * TimestampBase + lo.
TimestampBase == 100000000
U64(hi, lo) == [hi |-> hi, lo |-> lo]
Less64(a, b) == a.hi < b.hi \/ (a.hi = b.hi /\ a.lo < b.lo)
Succ64(a) == IF a.lo = TimestampBase - 1 THEN U64(a.hi + 1, 0) ELSE U64(a.hi, a.lo + 1)
Pred64(a) == IF a.lo = 0 THEN U64(a.hi - 1, TimestampBase - 1) ELSE U64(a.hi, a.lo - 1)

\* 1577836800000000ULL (2020-01-01) and 2524608000000000ULL (2050-01-01),
\* upper limbs; the lower limbs are 0.
MinTimestampHi == 15778368
MaxTimestampHi == 25246080
MinTimestamp == U64(MinTimestampHi, 0)
MaxTimestamp == U64(MaxTimestampHi, 0)

\* enum class EventType: UNKNOWN = 0, the kinds 1 (KEY_PRESS) .. 13
\* (SCREEN_UNLOCK).
UNKNOWN == 0
SCREEN_UNLOCK == 13
KnownEventTypes == 1 .. SCREEN_UNLOCK

\* char app_name[24], indexed from 0; a byte is 0 (NUL) or a letter.
AppNameLen == 24
AppNameWithNulAt(k) == [i \in 0 .. (AppNameLen - 1) |-> IF i = k THEN 0 ELSE 65]

\* The part of an Event that is_valid reads.
MakeRecord(ts, type, name) == [timestamp_us |-> ts, event_type |-> type, app_name |-> name]

\* for (int i = 0; i < 24; i++) if (app_name[i] == '\0') { has_null = true; break; }
RECURSIVE HasNull(_, _)
HasNull(app_name, i) ==
    IF i >= AppNameLen THEN FALSE
    ELSE IF app_name[i] = 0 THEN TRUE
    ELSE HasNull(app_name, i + 1)

\* bool Event::is_valid() const
IsValid(e) ==
    IF Less64(e.timestamp_us, MinTimestamp) \/ Less64(MaxTimestamp, e.timestamp_us)
    THEN FALSE
    ELSE IF e.event_type = UNKNOWN THEN FALSE
    ELSE IF ~ HasNull(e.app_name, 0) THEN FALSE
    ELSE TRUE

\* Records is_valid is called on: timestamps at and around both limits, every
\* enumerator of EventType and two values that are none, names terminated at
\* the first, a middle and the last byte and a name with no NUL.
TimestampSamples ==
    { U64(0, 0), Pred64(MinTimestamp), MinTimestamp, Succ64(MinTimestamp),
      Pred64(MaxTimestamp), MaxTimestamp, Succ64(MaxTimestamp) }
EventTypeSamples == {UNKNOWN} \cup KnownEventTypes \cup {SCREEN_UNLOCK + 1, 255}
AppNameSamples == { AppNameWithNulAt(k) : k \in {0, 11, AppNameLen - 1, AppNameLen} }
RecordSamples ==
    { MakeRecord(ts, type, name) :
        ts \in TimestampSamples, type \in EventTypeSamples, name \in AppNameSamples }

\* ---------------------------------------------------------------- one buffer as a value
\* Events with the fields is_valid reads: one that is valid, and one with a
\* timestamp of 0, event_type UNKNOWN and no NUL in app_name.
TwinItems ==
    { MakeEvent(MinTimestamp, [event_type |-> 1, app_name |-> AppNameWithNulAt(0)]),
      MakeEvent(U64(0, 0), [event_type |-> UNKNOWN, app_name |-> AppNameWithNulAt(AppNameLen)]) }
ItemValid(item) ==
    IsValid(MakeRecord(item.timestamp_us, item.data.event_type, item.data.app_name))

\* A LockFreeRingBuffer with its producer and its consumer, after
\* construction; garbage is what the slots and the consumer's Event hold.
RunInit(garbage) ==
    [ head |-> 0, tail |-> 0, buffer |-> [i \in Slots |-> garbage],
      p_pc |-> "idle", p_item |-> garbage, p_head |-> 0, p_result |-> "none",
      c_pc |-> "idle", c_item |-> garbage, c_tail |-> 0, c_result |-> "none",
      pushCalls |-> 0, pushFails |-> 0, pushed |-> << >>, popped |-> << >> ]

\* Whether try_push returns false: the full check is its only test, the item
\* is not looked at.
\* Variant of PushReturnsFalse: an item that is not valid is rejected too.
PushReturnsFalseOnInvalid(item, next_head, current_tail) ==
    PushFull(next_head, current_tail) \/ ~ ItemValid(item)
PushReturnsFalse(item, next_head, current_tail) == PushFull(next_head, current_tail)

\* The producer's next step in run r: the call try_push(item) with the load of
\* head_ if it is between calls, else the next step of the call in flight.
ProducerStep(r, item) ==
    CASE r.p_pc = "idle" ->
            [r EXCEPT !.p_item = item, !.p_head = r.head, !.p_pc = "load_tail",
                      !.pushCalls = @ + 1]
      [] r.p_pc = "load_tail" ->
            IF PushReturnsFalse(r.p_item, NextHead(r.p_head), r.tail)
            THEN [r EXCEPT !.p_pc = AfterFullCheck(TRUE), !.p_result = "false",
                           !.pushFails = @ + 1]
            ELSE [r EXCEPT !.p_pc = AfterFullCheck(FALSE)]
      [] r.p_pc = "write_ts" ->
            [r EXCEPT !.buffer[PushSlot(r.p_head)] = CopyTimestamp(@, r.p_item),
                      !.p_pc = "write_data"]
      [] r.p_pc = "write_data" ->
            [r EXCEPT !.buffer[PushSlot(r.p_head)] = CopyData(@, r.p_item),
                      !.p_pc = "store_head"]
      [] r.p_pc = "store_head" ->
            [r EXCEPT !.head = NextHead(r.p_head), !.p_pc = "idle",
                      !.p_result = "true", !.pushed = Append(@, r.p_item)]

\* The consumer's next step in run r, likewise.
ConsumerStep(r) ==
    CASE r.c_pc = "idle" ->
            [r EXCEPT !.c_tail = r.tail, !.c_pc = "load_head"]
      [] r.c_pc = "load_head" ->
            IF PopEmpty(r.c_tail, r.head)
            THEN [r EXCEPT !.c_pc = "idle", !.c_result = "false"]
            ELSE [r EXCEPT !.c_pc = "read_ts"]
      [] r.c_pc = "read_ts" ->
            [r EXCEPT !.c_item = CopyTimestamp(@, r.buffer[PopSlot(r.c_tail)]),
                      !.c_pc = "read_data"]
      [] r.c_pc = "read_data" ->
            [r EXCEPT !.c_item = CopyData(@, r.buffer[PopSlot(r.c_tail)]),
                      !.c_pc = "store_tail"]
      [] r.c_pc = "store_tail" ->
            [r EXCEPT !.tail = NextTail(r.c_tail), !.c_pc = "idle",
                      !.c_result = "true", !.popped = Append(@, r.c_item)]

\* ---------------------------------------------------------------- ContextSnapshot
\* The fields of a ContextSnapshot that ContextHistory and ContextTracker
\* read; app_name is a string, "" being the empty name.
\* ContextSnapshot::clear(): memset 0.
ClearedSnapshot ==
    [ timestamp_us |-> 0, duration_in_context_s |-> 0, focus_streak_s |-> 0,
      app_name |-> "", category |-> 0, keystrokes_in_context |-> 0,
      mouse_clicks |-> 0, mouse_distance_px |-> 0, is_productive |-> 0 ]
MakeSnapshot(ts, app) == [ClearedSnapshot EXCEPT !.timestamp_us = ts, !.app_name = app]

\* ---------------------------------------------------------------- ContextHistory
\* static constexpr size_t CAPACITY = 20
CAPACITY == 20
\* A const ContextSnapshot* into snapshots_ is the index of the element;
\* nullptr is NullPtr.
NullPtr == -1

\* ContextHistory(): head_ = 0, tail_ = 0, count_ = 0.  snapshots_ has no
\* initializer; no accessor reads an element before push has written it.
EmptyHistory ==
    [ snapshots_ |-> [i \in 0 .. (CAPACITY - 1) |-> ClearedSnapshot],
      head_ |-> 0, tail_ |-> 0, count_ |-> 0 ]

\* push: if (count_ < CAPACITY) count_++; (else count_ stays)
\* Variant of PushCount: <= in place of <.
PushCountLate(count) == IF count <= CAPACITY THEN count + 1 ELSE count
PushCount(count) == IF count < CAPACITY THEN count + 1 ELSE count

\* void ContextHistory::push(const ContextSnapshot& snapshot)
HistoryPush(h, snapshot) ==
    [ snapshots_ |-> [h.snapshots_ EXCEPT ![h.head_] = snapshot],
      head_ |-> (h.head_ + 1) % CAPACITY,
      tail_ |-> IF h.count_ < CAPACITY THEN h.tail_ ELSE (h.tail_ + 1) % CAPACITY,
      count_ |-> PushCount(h.count_) ]

\* void ContextHistory::clear(): head_ = tail_ = count_ = 0
HistoryClear(h) == [h EXCEPT !.head_ = 0, !.tail_ = 0, !.count_ = 0]

\* size_t ContextHistory::size() const
HistorySize(h) == h.count_

\* get_at: actual_idx = (head_ + CAPACITY - 1 - index) % CAPACITY
\* Variant of ActualIdx: the - 1 left out.
ActualIdxFromHead(head, index) == (head + CAPACITY - index) % CAPACITY
ActualIdx(head, index) == (head + CAPACITY - 1 - index) % CAPACITY

\* const ContextSnapshot* ContextHistory::get_at(size_t index) const
GetAt(h, index) == IF index >= h.count_ THEN NullPtr ELSE ActualIdx(h.head_, index)

\* const ContextSnapshot* ContextHistory::get_last() const
GetLast(h) == IF h.count_ = 0 THEN NullPtr ELSE (h.head_ + CAPACITY - 1) % CAPACITY

\* find_by_app: the loop from index i on.
RECURSIVE FindFrom(_, _, _)
FindFrom(h, app_name, i) ==
    IF i >= h.count_ THEN NullPtr
    ELSE IF GetAt(h, i) # NullPtr /\ h.snapshots_[GetAt(h, i)].app_name = app_name
         THEN GetAt(h, i)
         ELSE FindFrom(h, app_name, i + 1)

\* Variant of FindByApp: the loop runs from the oldest snapshot to the newest.
RECURSIVE FindFromOldest(_, _, _)
FindFromOldest(h, app_name, i) ==
    IF i < 0 THEN NullPtr
    ELSE IF GetAt(h, i) # NullPtr /\ h.snapshots_[GetAt(h, i)].app_name = app_name
         THEN GetAt(h, i)
         ELSE FindFromOldest(h, app_name, i - 1)
FindByAppOldest(h, app_name) == FindFromOldest(h, app_name, h.count_ - 1)
\* const ContextSnapshot* ContextHistory::find_by_app(const char* app_name) const
FindByApp(h, app_name) == FindFrom(h, app_name, 0)

\* App names of the snapshots pushed, and names asked for.
AppNames == {"Code.exe", "chrome.exe"}
QueryNames == AppNames \cup {"notepad.exe"}

\* ---------------------------------------------------------------- AppCategory
\* enum class AppCategory (UNKNOWN = 0 is CATEGORY_UNKNOWN here).
CATEGORY_UNKNOWN == 0
IDE == 1
TERMINAL == 2
DOCUMENTATION == 3
PRODUCTIVITY == 4
BROWSER == 5
SOCIAL_MEDIA == 10
COMMUNICATION == 11
ENTERTAINMENT == 12
SHOPPING == 13

\* Variant of IsProductiveCategory: SOCIAL_MEDIA counted as productive.
IsProductiveCategoryWide(cat) == cat <= 10
\* is_productive_category: static_cast<uint8_t>(cat) < 10
IsProductiveCategory(cat) == cat < 10

\* ---------------------------------------------------------------- title parser
\* A window title is the sequence of its parts ("main.py - MyProject - Visual
\* Studio Code" is << "main.py", "MyProject", "Visual Studio Code" >>).
\* ends_with(title, s) for s in a set of names: the last part is one of them.
EndsWith(title, names) == Len(title) > 0 /\ title[Len(title)] \in names
\* strstr(title, s) != nullptr for s in a set of names: some part is one of them.
Contains(title, names) == \E i \in 1 .. Len(title) : title[i] \in names

VSCodeSuffixes == {"Visual Studio Code", "VS Code", "Code"}
JetBrainsNames == {"IntelliJ IDEA", "PyCharm", "WebStorm", "CLion", "Rider", "GoLand", "RubyMine"}
OfficeSuffixes == {"Word", "Excel", "PowerPoint", "Outlook", "OneNote"}
OfficeNames == {"Microsoft Word", "Microsoft Excel"}
TerminalNames ==
    {"PowerShell", "cmd.exe", "Command Prompt", "Windows Terminal", "MINGW",
     "Git Bash", "Bash", "Terminal"}
BrowserSuffixes ==
    {"Google Chrome", "Chrome", "Microsoft Edge", "Edge", "Mozilla Firefox", "Firefox"}
ProductiveDomains ==
    {"GitHub", "Stack Overflow", "stackoverflow", "MDN", "docs.", "documentation",
     "Wikipedia", "Microsoft Learn", "Google Docs", "Notion", "localhost", "127.0.0.1"}
\* distracting_domains, in the order the loop tries them.
DistractingDomains ==
    << "YouTube", "Twitter", "Facebook", "Instagram", "Reddit", "Netflix",
       "Twitch", "TikTok", "Discord", "Amazon", "eBay" >>
SearchNames == {"Google Search", "Bing", "DuckDuckGo"}

\* The category parse_browser gives for a distracting domain.
DomainCategory(domain) ==
    IF domain = "YouTube" THEN ENTERTAINMENT
    ELSE IF domain \in {"Amazon", "eBay"} THEN SHOPPING
    ELSE IF domain = "Discord" THEN COMMUNICATION
    ELSE SOCIAL_MEDIA

\* parse_browser, for a title that ends with a browser name.
BrowserCategory(title) ==
    LET found == { i \in 1 .. Len(DistractingDomains) : Contains(title, {DistractingDomains[i]}) }
        first == CHOOSE i \in found : \A j \in found : i <= j
    IN  IF Contains(title, SearchNames) THEN DOCUMENTATION
        ELSE IF found # {} THEN DomainCategory(DistractingDomains[first])
        ELSE IF Contains(title, ProductiveDomains) THEN DOCUMENTATION
        ELSE BROWSER

\* The category parse_window_title assigns: the first parser of the chain
\* that accepts the title decides.
ParseCategory(title) ==
    IF EndsWith(title, VSCodeSuffixes) THEN IDE
    ELSE IF Contains(title, JetBrainsNames) THEN IDE
    ELSE IF EndsWith(title, OfficeSuffixes) \/ Contains(title, OfficeNames) THEN PRODUCTIVITY
    ELSE IF Contains(title, TerminalNames) THEN TERMINAL
    ELSE IF EndsWith(title, BrowserSuffixes) THEN BrowserCategory(title)
    ELSE CATEGORY_UNKNOWN

\* parse_window_title(app_name, title, out): memset 0, app_name, category;
\* the JetBrains, Office and terminal parsers also set is_productive.
ParseWindowTitle(app_name, title) ==
    [ClearedSnapshot EXCEPT
        !.app_name = app_name,
        !.category = ParseCategory(title),
        !.is_productive =
            IF /\ ~ EndsWith(title, VSCodeSuffixes)
               /\ \/ Contains(title, JetBrainsNames)
                  \/ EndsWith(title, OfficeSuffixes)
                  \/ Contains(title, OfficeNames)
                  \/ Contains(title, TerminalNames)
            THEN 1 ELSE 0]

\* bool ContextSnapshot::is_meaningful() const
\* Variant of IsMeaningful: the activity test left out.
IsMeaningfulIdle(snapshot) ==
    IF snapshot.app_name = "" THEN FALSE
    ELSE IF snapshot.duration_in_context_s < 5 THEN FALSE
    ELSE TRUE
IsMeaningful(snapshot) ==
    IF snapshot.app_name = "" THEN FALSE
    ELSE IF snapshot.duration_in_context_s < 5 THEN FALSE
    ELSE IF snapshot.keystrokes_in_context = 0 /\ snapshot.mouse_clicks = 0 THEN FALSE
    ELSE TRUE

\* ---------------------------------------------------------------- ContextTracker
\* Microseconds in a second (the divisor 1000000 of the code).
UsPerSecond == 1000000
\* now_us(): steady_clock; the model's clock starts at ClockStart and moves
\* ClockStep at a time (5 s, the duration is_meaningful asks for).
ClockStart == UsPerSecond
ClockStep == 5 * UsPerSecond

\* TrackerConfig: the default, and one with both intervals at two clock steps.
DefaultConfig == [snapshot_interval_ms |-> 30000, min_distraction_for_recovery_ms |-> 30000]
ShortConfig == [snapshot_interval_ms |-> 10000, min_distraction_for_recovery_ms |-> 10000]
ConfigSamples == {DefaultConfig, ShortConfig}

\* Windows reported to on_window_change.
MakeWindow(app_name, title) == [app_name |-> app_name, title |-> title]
WindowSamples ==
    { MakeWindow("Code.exe", << "main.py", "MyProject", "Visual Studio Code" >>),
      MakeWindow("chrome.exe", << "Home / Twitter", "Twitter", "Google Chrome" >>),
      MakeWindow("notepad.exe", << "Untitled", "Notepad" >>) }

\* current_context_ has no initializer and the constructor does not clear it:
\* until start() it holds whatever the memory held.
UninitializedContexts ==
    { ClearedSnapshot,
      [ClearedSnapshot EXCEPT !.app_name = "Code.exe", !.category = SOCIAL_MEDIA,
                              !.duration_in_context_s = 9, !.keystrokes_in_context = 1] }

\* RecoveryOverlay: whether the window is visible and whether the
\* auto-dismiss timer is set.  create() is taken to have succeeded and
\* auto_dismiss_ms is the default 5000, so show() sets the timer.
HiddenOverlay == [visible |-> FALSE, timer |-> FALSE]
OverlayShow(overlay) == [visible |-> TRUE, timer |-> TRUE]
OverlayHide(overlay) == [visible |-> FALSE, timer |-> FALSE]

\* if (distraction_duration_us >= min_duration_us)
\* Variant of LongEnough: > in place of >=.
LongEnoughStrict(distraction_duration_us, min_duration_us) ==
    distraction_duration_us > min_duration_us
LongEnough(distraction_duration_us, min_duration_us) ==
    distraction_duration_us >= min_duration_us

\* on_window_change: switch (state_).
\* Variant of NextState: every window change while FOCUSED distracts.
NextStateEager(state, now_productive, long_enough) ==
    IF state = "FOCUSED" THEN "DISTRACTED"
    ELSE IF state = "DISTRACTED"
         THEN IF now_productive
              THEN IF long_enough THEN "RECOVERING" ELSE "FOCUSED"
              ELSE "DISTRACTED"
    ELSE "RECOVERING"
\* Variant of NextState: a return that is too short for the overlay leaves
\* the state DISTRACTED.
NextStateSticky(state, now_productive, long_enough) ==
    IF state = "FOCUSED"
    THEN IF ~ now_productive THEN "DISTRACTED" ELSE "FOCUSED"
    ELSE IF state = "DISTRACTED"
         THEN IF now_productive /\ long_enough THEN "RECOVERING" ELSE "DISTRACTED"
    ELSE "RECOVERING"
\* Variant of NextState: a productive window ends the recovery.
NextStateLeaving(state, now_productive, long_enough) ==
    IF state = "FOCUSED"
    THEN IF ~ now_productive THEN "DISTRACTED" ELSE "FOCUSED"
    ELSE IF state = "DISTRACTED"
         THEN IF now_productive
              THEN IF long_enough THEN "RECOVERING" ELSE "FOCUSED"
              ELSE "DISTRACTED"
    ELSE IF now_productive THEN "FOCUSED" ELSE "RECOVERING"
\* Variant of NextState: a distracting window during the recovery distracts
\* again.
NextStateRelapse(state, now_productive, long_enough) ==
    IF state = "FOCUSED"
    THEN IF ~ now_productive THEN "DISTRACTED" ELSE "FOCUSED"
    ELSE IF state = "DISTRACTED"
         THEN IF now_productive
              THEN IF long_enough THEN "RECOVERING" ELSE "FOCUSED"
              ELSE "DISTRACTED"
    ELSE IF now_productive THEN "RECOVERING" ELSE "DISTRACTED"
NextState(state, now_productive, long_enough) ==
    IF state = "FOCUSED"
    THEN IF ~ now_productive THEN "DISTRACTED" ELSE "FOCUSED"
    ELSE IF state = "DISTRACTED"
         THEN IF now_productive
              THEN IF long_enough THEN "RECOVERING" ELSE "FOCUSED"
              ELSE "DISTRACTED"
    ELSE "RECOVERING"

\* ---------------------------------------------------------------- state
VARIABLES
    head,        \* head_
    tail,        \* tail_
    buffer,      \* buffer_
    p_pc,        \* producer: position inside try_push
    p_item,      \* try_push: item
    p_head,      \* try_push: current_head
    p_result,    \* what the producer's last try_push returned: "true", "false"
                 \* ("none" before the first return)
    c_pc,        \* consumer: position inside try_pop
    c_item,      \* try_pop: item (the caller's Event, kept between calls)
    c_tail,      \* try_pop: current_tail
    c_result,    \* what the consumer's last try_pop returned, likewise
    m_pc,        \* statistics thread: position inside size() ("returned" once
                 \* a call has returned)
    m_head,      \* size(): current_head
    m_size,      \* value returned by the last size()
    m_util,      \* value returned by the last utilization()
    pushCalls,   \* history: number of try_push calls begun
    pushFails,   \* history: number of try_push calls that returned false
    pushed,      \* history: items of the try_push calls that returned true
    popped,      \* history: items returned by the try_pop calls that returned true
    refill,      \* history: "full" once a push has failed, "freed" once a pop has
                 \* then succeeded with no push in between, "refilled" once the
                 \* next push has returned true
    q_pc,        \* a second thread calling try_push: position inside try_push
    q_item,      \* its try_push: item
    q_head,      \* its try_push: current_head
    q_result,    \* what its last try_push returned
    p_full,      \* what the producer's last is_full() returned, and how many of
                 \* its try_push calls had returned true by then
    c_empty,     \* what the consumer's last is_empty() returned, and how many
                 \* of its try_pop calls had returned true by then
    m_capacity,  \* value returned by the last capacity() (0 before the first)
    runs,        \* two buffers, each with its producer and consumer, run side
                 \* by side under one schedule: << first run, second run >>
    v_event,     \* the record Event::is_valid is called on
    v_result,    \* what is_valid returned ("none" before the call)
    history_,    \* a ContextHistory: snapshots_, head_, tail_, count_
    h_log,       \* history: the snapshots pushed since the last clear (or since
                 \* construction), oldest first
    h_pushes,    \* history: number of push calls
    h_code,      \* history: number of push calls with app_name "Code.exe"
    h_clears,    \* history: number of clear calls
    state_,      \* ContextTracker: "FOCUSED", "DISTRACTED" or "RECOVERING"
    current_context_,
    config_,
    focus_start_time_,
    distraction_start_time_,
    last_snapshot_time_,
    last_activity_time_,
    distraction_app_,
    overlay_,    \* the RecoveryOverlay: visible, timer
    o_pc,        \* the overlay's window procedure: "idle", or "callback" between
                 \* its hide() and its call of on_dismiss_
    now,         \* the clock read by now_us()
    t_ticks,     \* history: number of clock steps
    t_inputs     \* history: number of on_keystroke, on_mouse_click and
                 \* on_mouse_move calls

vars == << head, tail, buffer, p_pc, p_item, p_head, p_result,
           c_pc, c_item, c_tail, c_result, m_pc, m_head, m_size, m_util,
           pushCalls, pushFails, pushed, popped, refill,
           q_pc, q_item, q_head, q_result, p_full, c_empty, m_capacity, runs,
           v_event, v_result,
           history_, h_log, h_pushes, h_code, h_clears,
           state_, current_context_, config_, focus_start_time_,
           distraction_start_time_, last_snapshot_time_, last_activity_time_,
           distraction_app_, overlay_, o_pc, now, t_ticks, t_inputs >>

producerVars == << p_pc, p_item, p_head, p_result >>
consumerVars == << c_pc, c_item, c_tail, c_result >>
monitorVars  == << m_pc, m_head, m_size, m_util >>
historyVars  == << pushCalls, pushFails, pushed, popped, refill >>
secondProducerVars == << q_pc, q_item, q_head, q_result >>
queryVars == << p_full, c_empty, m_capacity >>
twinVars == << runs >>
validityVars == << v_event, v_result >>
\* The ring buffer with all its callers, and everything else.
ringVars == << head, tail, buffer, producerVars, consumerVars, monitorVars,
               historyVars, secondProducerVars, queryVars, twinVars >>
contextHistoryVars == << history_, h_log, h_pushes, h_code, h_clears >>
trackerVars == << state_, current_context_, config_, focus_start_time_,
                 distraction_start_time_, last_snapshot_time_,
                 last_activity_time_, distraction_app_, overlay_, o_pc, now,
                 t_ticks, t_inputs >>
nonRingVars == << validityVars, contextHistoryVars, trackerVars >>

\* Everything that is not part of the ring buffer and its producer, consumer
\* and statistics thread.
otherVars == << secondProducerVars, queryVars, twinVars, nonRingVars >>

\* LockFreeRingBuffer(): head_(0), tail_(0); buffer_ is left uninitialized.
RingThreadsInit ==
    /\ head = 0
    /\ tail = 0
    /\ \E g \in Uninitialized : buffer = [i \in Slots |-> g]
    /\ p_pc = "idle"
    /\ p_item = MakeEvent(0, 0)
    /\ p_head = 0
    /\ p_result = "none"
    /\ c_pc = "idle"
    /\ c_item \in Uninitialized
    /\ c_tail = 0
    /\ c_result = "none"
    /\ m_pc = "idle"
    /\ m_head = 0
    /\ m_size = 0
    /\ m_util = Utilization(0)
    /\ pushCalls = 0
    /\ pushFails = 0
    /\ pushed = << >>
    /\ popped = << >>
    /\ refill = "no"
    /\ q_pc = "idle"
    /\ q_item = MakeEvent(0, 0)
    /\ q_head = 0
    /\ q_result = "none"
    /\ p_full = NoQuery
    /\ c_empty = NoQuery
    /\ m_capacity = 0

\* No second run takes part.
TwinUnused == runs = << RunInit(MakeEvent(0, 0)), RunInit(MakeEvent(0, 0)) >>

RingInit == RingThreadsInit /\ TwinUnused

\* No call of is_valid is made.
ValidityIdle ==
    /\ v_event = MakeRecord(MinTimestamp, UNKNOWN, AppNameWithNulAt(0))
    /\ v_result = "none"

\* ContextHistory()
HistoryInit ==
    /\ history_ = EmptyHistory
    /\ h_log = << >>
    /\ h_pushes = 0
    /\ h_code = 0
    /\ h_clears = 0

\* ContextTracker(): the member initializers; the overlay is created hidden.
TrackerInitWith(context) ==
    /\ state_ = "FOCUSED"
    /\ current_context_ = context
    /\ config_ = DefaultConfig
    /\ focus_start_time_ = 0
    /\ distraction_start_time_ = 0
    /\ last_snapshot_time_ = 0
    /\ last_activity_time_ = 0
    /\ distraction_app_ = ""
    /\ overlay_ = HiddenOverlay
    /\ o_pc = "idle"
    /\ now = ClockStart
    /\ t_ticks = 0
    /\ t_inputs = 0
\* No ContextTracker takes part.
TrackerUnused == TrackerInitWith(ClearedSnapshot)

Init == RingInit /\ ValidityIdle /\ HistoryInit /\ TrackerUnused

\* The ring buffer where no thread uses it: its variables stay at one initial
\* value.
RingUnused ==
    /\ RingInit
    /\ buffer = [i \in Slots |-> MakeEvent(0, 0)]
    /\ c_item = MakeEvent(0, 0)

\* ---------------------------------------------------------------- try_push
\* The call, and step 1: current_head = head_.load(relaxed).
PushBegin ==
    /\ p_pc = "idle"
    /\ pushCalls < MaxPushCalls
    /\ \E d \in Payloads : p_item' = MakeEvent(pushCalls + 1, d)
    /\ p_head' = head
    /\ p_pc' = "load_tail"
    /\ pushCalls' = pushCalls + 1
    /\ UNCHANGED << head, tail, buffer, p_result, consumerVars, monitorVars,
                    pushFails, pushed, popped, refill >>
    /\ UNCHANGED otherVars

\* Steps 3 and 4: current_tail = tail_.load(acquire); the full check.
PushLoadTail ==
    /\ p_pc = "load_tail"
    /\ IF PushFull(NextHead(p_head), tail)
       THEN /\ p_pc' = AfterFullCheck(TRUE)
            /\ p_result' = "false"
            /\ pushFails' = pushFails + 1
            /\ refill' = "full"
       ELSE /\ p_pc' = AfterFullCheck(FALSE)
            /\ UNCHANGED << p_result, pushFails, refill >>
    /\ UNCHANGED << head, tail, buffer, p_item, p_head, consumerVars,
                    monitorVars, pushCalls, pushed, popped >>
    /\ UNCHANGED otherVars

\* Step 5, first part of buffer_[index] = item.
PushWriteTimestamp ==
    /\ p_pc = "write_ts"
    /\ buffer' = [buffer EXCEPT ![PushSlot(p_head)] = CopyTimestamp(@, p_item)]
    /\ p_pc' = "write_data"
    /\ UNCHANGED << head, tail, p_item, p_head, p_result, consumerVars,
                    monitorVars, historyVars >>
    /\ UNCHANGED otherVars

\* Step 5, second part of buffer_[index] = item.
PushWriteData ==
    /\ p_pc = "write_data"
    /\ buffer' = [buffer EXCEPT ![PushSlot(p_head)] = CopyData(@, p_item)]
    /\ p_pc' = "store_head"
    /\ UNCHANGED << head, tail, p_item, p_head, p_result, consumerVars,
                    monitorVars, historyVars >>
    /\ UNCHANGED otherVars

\* Step 6: head_.store(next_head, release); return true.
PushStoreHead ==
    /\ p_pc = "store_head"
    /\ head' = NextHead(p_head)
    /\ p_pc' = "idle"
    /\ p_result' = "true"
    /\ pushed' = Append(pushed, p_item)
    /\ refill' = IF refill = "freed" THEN "refilled" ELSE "no"
    /\ UNCHANGED << tail, buffer, p_item, p_head, consumerVars, monitorVars,
                    pushCalls, pushFails, popped >>
    /\ UNCHANGED otherVars

\* ---------------------------------------------------------------- try_pop
\* The call, and step 1: current_tail = tail_.load(relaxed).
PopBegin ==
    /\ c_pc = "idle"
    /\ c_tail' = tail
    /\ c_pc' = "load_head"
    /\ UNCHANGED << head, tail, buffer, producerVars, c_item, c_result,
                    monitorVars, historyVars >>
    /\ UNCHANGED otherVars

\* Steps 2 and 3: current_head = head_.load(acquire); the empty check.
PopLoadHead ==
    /\ c_pc = "load_head"
    /\ IF PopEmpty(c_tail, head)
       THEN /\ c_pc' = "idle"
            /\ c_result' = "false"
       ELSE /\ c_pc' = "read_ts"
            /\ UNCHANGED c_result
    /\ UNCHANGED << head, tail, buffer, producerVars, c_item, c_tail,
                    monitorVars, historyVars >>
    /\ UNCHANGED otherVars

\* Step 4, first part of item = buffer_[index].
PopReadTimestamp ==
    /\ c_pc = "read_ts"
    /\ c_item' = CopyTimestamp(c_item, buffer[PopSlot(c_tail)])
    /\ c_pc' = "read_data"
    /\ UNCHANGED << head, tail, buffer, producerVars, c_tail, c_result,
                    monitorVars, historyVars >>
    /\ UNCHANGED otherVars

\* Step 4, second part of item = buffer_[index].
PopReadData ==
    /\ c_pc = "read_data"
    /\ c_item' = CopyData(c_item, buffer[PopSlot(c_tail)])
    /\ c_pc' = "store_tail"
    /\ UNCHANGED << head, tail, buffer, producerVars, c_tail, c_result,
                    monitorVars, historyVars >>
    /\ UNCHANGED otherVars

\* Step 5: tail_.store(current_tail + 1, release); return true.
PopStoreTail ==
    /\ c_pc = "store_tail"
    /\ tail' = NextTail(c_tail)
    /\ c_pc' = "idle"
    /\ c_result' = "true"
    /\ popped' = Append(popped, c_item)
    /\ refill' = IF refill = "full" /\ p_pc = "idle" THEN "freed" ELSE refill
    /\ UNCHANGED << head, buffer, producerVars, c_item, c_tail, monitorVars,
                    pushCalls, pushFails, pushed >>
    /\ UNCHANGED otherVars

\* ---------------------------------------------------------------- size, utilization
\* size(): current_head = head_.load(acquire).
SizeLoadHead ==
    /\ m_pc \in {"idle", "returned"}
    /\ m_head' = head
    /\ m_pc' = "load_tail"
    /\ UNCHANGED << head, tail, buffer, producerVars, consumerVars,
                    m_size, m_util, historyVars >>
    /\ UNCHANGED otherVars

\* size(): current_tail = tail_.load(acquire); return current_head - current_tail.
\* utilization() returns size() / Size.
SizeLoadTail ==
    /\ m_pc = "load_tail"
    /\ m_size' = SizeOf(m_head, tail)
    /\ m_util' = Utilization(SizeOf(m_head, tail))
    /\ m_pc' = "returned"
    /\ UNCHANGED << head, tail, buffer, producerVars, consumerVars,
                    m_head, historyVars >>
    /\ UNCHANGED otherVars

\* ---------------------------------------------------------------- specification
Next ==
    \/ PushBegin
    \/ PushLoadTail
    \/ PushWriteTimestamp
    \/ PushWriteData
    \/ PushStoreHead
    \/ PopBegin
    \/ PopLoadHead
    \/ PopReadTimestamp
    \/ PopReadData
    \/ PopStoreTail

\* Producer and consumer only.
Spec == Init /\ [][Next]_vars

\* Producer, consumer and the statistics thread.
NextMonitor ==
    \/ Next
    \/ SizeLoadHead
    \/ SizeLoadTail

SpecMonitor == Init /\ [][NextMonitor]_vars

\* ---------------------------------------------------------------- two producers
\* A second thread calls try_push on the same buffer: the same code, its own
\* item and current_head.  The two slot writes race; the two-step copy lets
\* either write win or the slot end up with parts of both.
Push2Begin ==
    /\ q_pc = "idle"
    /\ pushCalls < MaxPushCalls
    /\ \E d \in Payloads : q_item' = MakeEvent(pushCalls + 1, d)
    /\ q_head' = head
    /\ q_pc' = "load_tail"
    /\ pushCalls' = pushCalls + 1
    /\ UNCHANGED << head, tail, buffer, q_result, producerVars, consumerVars,
                    monitorVars, pushFails, pushed, popped, refill >>
    /\ UNCHANGED << queryVars, twinVars, nonRingVars >>

Push2LoadTail ==
    /\ q_pc = "load_tail"
    /\ IF PushFull(NextHead(q_head), tail)
       THEN /\ q_pc' = AfterFullCheck(TRUE)
            /\ q_result' = "false"
            /\ pushFails' = pushFails + 1
       ELSE /\ q_pc' = AfterFullCheck(FALSE)
            /\ UNCHANGED << q_result, pushFails >>
    /\ UNCHANGED << head, tail, buffer, q_item, q_head, producerVars,
                    consumerVars, monitorVars, pushCalls, pushed, popped, refill >>
    /\ UNCHANGED << queryVars, twinVars, nonRingVars >>

Push2WriteTimestamp ==
    /\ q_pc = "write_ts"
    /\ buffer' = [buffer EXCEPT ![PushSlot(q_head)] = CopyTimestamp(@, q_item)]
    /\ q_pc' = "write_data"
    /\ UNCHANGED << head, tail, q_item, q_head, q_result, producerVars,
                    consumerVars, monitorVars, historyVars >>
    /\ UNCHANGED << queryVars, twinVars, nonRingVars >>

Push2WriteData ==
    /\ q_pc = "write_data"
    /\ buffer' = [buffer EXCEPT ![PushSlot(q_head)] = CopyData(@, q_item)]
    /\ q_pc' = "store_head"
    /\ UNCHANGED << head, tail, q_item, q_head, q_result, producerVars,
                    consumerVars, monitorVars, historyVars >>
    /\ UNCHANGED << queryVars, twinVars, nonRingVars >>

Push2StoreHead ==
    /\ q_pc = "store_head"
    /\ head' = NextHead(q_head)
    /\ q_pc' = "idle"
    /\ q_result' = "true"
    /\ pushed' = Append(pushed, q_item)
    /\ UNCHANGED << tail, buffer, q_item, q_head, producerVars, consumerVars,
                    monitorVars, pushCalls, pushFails, popped, refill >>
    /\ UNCHANGED << queryVars, twinVars, nonRingVars >>

\* Two producers and the consumer.  The calls of both producers together are
\* capped at MaxTwoProducerCalls and the successful pops at MaxTwoProducerPops
\* (once head_ has been stored backwards, tail_ # head_ holds for 2^64 pops).
NextTwoProducers ==
    \/ PushBegin /\ pushCalls < MaxTwoProducerCalls
    \/ PushLoadTail
    \/ PushWriteTimestamp
    \/ PushWriteData
    \/ PushStoreHead
    \/ Push2Begin /\ pushCalls < MaxTwoProducerCalls
    \/ Push2LoadTail
    \/ Push2WriteTimestamp
    \/ Push2WriteData
    \/ Push2StoreHead
    \/ PopBegin /\ Len(popped) < MaxTwoProducerPops
    \/ PopLoadHead
    \/ PopReadTimestamp
    \/ PopReadData
    \/ PopStoreTail

SpecTwoProducers == Init /\ [][NextTwoProducers]_vars

\* ---------------------------------------------------------------- is_full, is_empty, capacity
\* The producer calls is_full() between its try_push calls: its own head_ and
\* one load of tail_, so one step.
IsFullCall ==
    /\ p_pc = "idle"
    /\ p_full' = QueryResult(IsFull(head, tail), Len(pushed))
    /\ UNCHANGED << head, tail, buffer, producerVars, consumerVars, monitorVars,
                    historyVars, secondProducerVars, c_empty, m_capacity >>
    /\ UNCHANGED << twinVars, nonRingVars >>

\* The consumer calls is_empty() between its try_pop calls: its own tail_ and
\* one load of head_.
IsEmptyCall ==
    /\ c_pc = "idle"
    /\ c_empty' = QueryResult(IsEmpty(tail, head), Len(popped))
    /\ UNCHANGED << head, tail, buffer, producerVars, consumerVars, monitorVars,
                    historyVars, secondProducerVars, p_full, m_capacity >>
    /\ UNCHANGED << twinVars, nonRingVars >>

\* The statistics thread calls capacity().
CapacityCall ==
    /\ m_pc \in {"idle", "returned"}
    /\ m_capacity' = Capacity
    /\ UNCHANGED << head, tail, buffer, producerVars, consumerVars, monitorVars,
                    historyVars, secondProducerVars, p_full, c_empty >>
    /\ UNCHANGED << twinVars, nonRingVars >>

\* Producer, consumer and statistics thread with every member function of the
\* buffer in use.  The pushed items all carry the payload 0 (no query looks
\* at a slot).
QueryPayloads == {0}
NextQueries ==
    \/ PushBegin /\ pushCalls < MaxQueryPushCalls /\ p_item'.data \in QueryPayloads
    \/ PushLoadTail
    \/ PushWriteTimestamp
    \/ PushWriteData
    \/ PushStoreHead
    \/ PopBegin
    \/ PopLoadHead
    \/ PopReadTimestamp
    \/ PopReadData
    \/ PopStoreTail
    \/ SizeLoadHead
    \/ SizeLoadTail
    \/ IsFullCall
    \/ IsEmptyCall
    \/ CapacityCall

SpecQueries == Init /\ [][NextQueries]_vars

\* ---------------------------------------------------------------- counter wrap
\* The buffer after 2^CounterBits - WrapDistance items have gone through it:
\* it is empty, both counters stand WrapDistance below the wrap point, no
\* call is in flight, and the slots and the consumer's Event hold old items.
\* The history variables count from this state on.
InitWrap ==
    /\ head = CounterModulus - WrapDistance
    /\ tail = CounterModulus - WrapDistance
    /\ \E g \in Uninitialized : buffer = [i \in Slots |-> g]
    /\ p_pc = "idle"
    /\ p_item = MakeEvent(0, 0)
    /\ p_head = CounterModulus - WrapDistance - 1
    /\ p_result = "true"
    /\ c_pc = "idle"
    /\ c_item \in Uninitialized
    /\ c_tail = CounterModulus - WrapDistance - 1
    /\ c_result = "true"
    /\ m_pc = "idle"
    /\ m_head = 0
    /\ m_size = 0
    /\ m_util = Utilization(0)
    /\ pushCalls = 0
    /\ pushFails = 0
    /\ pushed = << >>
    /\ popped = << >>
    /\ refill = "no"
    /\ q_pc = "idle"
    /\ q_item = MakeEvent(0, 0)
    /\ q_head = 0
    /\ q_result = "none"
    /\ p_full = NoQuery
    /\ c_empty = NoQuery
    /\ m_capacity = 0
    /\ TwinUnused
    /\ ValidityIdle
    /\ HistoryInit
    /\ TrackerUnused

\* Producer and consumer, from there on.
SpecWrap == InitWrap /\ [][Next]_vars

\* ---------------------------------------------------------------- two runs, one schedule
\* Two buffers are driven by the same schedule (in each step the same thread
\* takes its next step in both runs); only the items handed to try_push
\* differ, each drawn from TwinItems.
InitTwin ==
    /\ RingThreadsInit
    /\ buffer = [i \in Slots |-> MakeEvent(0, 0)]
    /\ c_item = MakeEvent(0, 0)
    /\ \E g1, g2 \in TwinItems : runs = << RunInit(g1), RunInit(g2) >>
    /\ ValidityIdle
    /\ HistoryInit
    /\ TrackerUnused

TwinFrame ==
    UNCHANGED << head, tail, buffer, producerVars, consumerVars, monitorVars,
                 historyVars, secondProducerVars, queryVars, nonRingVars >>

TwinProducerStep ==
    /\ runs[1].p_pc = "idle" => runs[1].pushCalls < MaxTwinPushCalls
    /\ \E item1, item2 \in TwinItems :
        runs' = << ProducerStep(runs[1], item1), ProducerStep(runs[2], item2) >>
    /\ TwinFrame

TwinConsumerStep ==
    /\ runs' = << ConsumerStep(runs[1]), ConsumerStep(runs[2]) >>
    /\ TwinFrame

NextTwin == TwinProducerStep \/ TwinConsumerStep

SpecTwin == InitTwin /\ [][NextTwin]_vars

\* ---------------------------------------------------------------- Event::is_valid
\* A record arrives and is_valid is called on it.
InitValidity ==
    /\ RingInit
    /\ v_event \in RecordSamples
    /\ v_result = "none"
    /\ HistoryInit
    /\ TrackerUnused

IsValidCall ==
    /\ v_result = "none"
    /\ v_result' = IF IsValid(v_event) THEN "true" ELSE "false"
    /\ UNCHANGED << ringVars, v_event, contextHistoryVars, trackerVars >>

NextValidity == IsValidCall

SpecValidity == InitValidity /\ [][NextValidity]_vars

\* ---------------------------------------------------------------- ContextHistory
InitHistory == RingUnused /\ ValidityIdle /\ HistoryInit /\ TrackerUnused

\* history.push(snapshot); the snapshot's timestamp is the number of the call.
HistoryPushCall ==
    /\ h_pushes < MaxHistoryPushes
    /\ \E app \in AppNames :
        /\ app = "Code.exe" => h_code < MaxCodePushes
        /\ history_' = HistoryPush(history_, MakeSnapshot(h_pushes + 1, app))
        /\ h_log' = Append(h_log, MakeSnapshot(h_pushes + 1, app))
        /\ h_code' = IF app = "Code.exe" THEN h_code + 1 ELSE h_code
    /\ h_pushes' = h_pushes + 1
    /\ UNCHANGED << ringVars, validityVars, trackerVars, h_clears >>

\* history.clear()
HistoryClearCall ==
    /\ h_clears < MaxHistoryClears
    /\ history_' = HistoryClear(history_)
    /\ h_log' = << >>
    /\ h_clears' = h_clears + 1
    /\ UNCHANGED << ringVars, validityVars, trackerVars, h_pushes, h_code >>

NextHistory == HistoryPushCall \/ HistoryClearCall

SpecHistory == InitHistory /\ [][NextHistory]_vars

\* ---------------------------------------------------------------- ContextTracker
\* Every public member function and on_overlay_dismissed hold mutex_ for
\* their whole body, so each is one step.  The last_productive text that
\* show_recovery_overlay builds for the overlay to paint is not modelled.
InitTracker ==
    /\ RingUnused
    /\ ValidityIdle
    /\ HistoryInit
    /\ \E context \in UninitializedContexts : TrackerInitWith(context)

\* What every call on the tracker leaves alone.
TrackerFrame == UNCHANGED << ringVars, validityVars, h_pushes, h_code, h_clears, t_ticks, now >>
\* One more input event is reported.
InputEvent == t_inputs < MaxInputs /\ t_inputs' = t_inputs + 1

\* if (snapshot.is_meaningful()) history_.push(snapshot);
SaveIfMeaningful(snapshot) ==
    IF IsMeaningful(snapshot)
    THEN /\ history_' = HistoryPush(history_, snapshot)
         /\ h_log' = Append(h_log, snapshot)
    ELSE UNCHANGED << history_, h_log >>

\* void ContextTracker::start()
Start ==
    /\ state_' = "FOCUSED"
    /\ last_snapshot_time_' = now
    /\ focus_start_time_' = now
    /\ current_context_' = [ClearedSnapshot EXCEPT !.timestamp_us = now]
    /\ TrackerFrame /\ UNCHANGED t_inputs
    /\ UNCHANGED << history_, h_log, config_, distraction_start_time_,
                    last_activity_time_, distraction_app_, overlay_, o_pc >>

\* void ContextTracker::stop()
Stop ==
    /\ overlay_' = OverlayHide(overlay_)
    /\ history_' = HistoryClear(history_)
    /\ h_log' = << >>
    /\ TrackerFrame /\ UNCHANGED t_inputs
    /\ UNCHANGED << state_, current_context_, config_, focus_start_time_,
                    distraction_start_time_, last_snapshot_time_,
                    last_activity_time_, distraction_app_, o_pc >>

\* void ContextTracker::on_window_change(app_name, window_title)
OnWindowChange ==
    \E window \in WindowSamples :
        LET new_context ==
                [ParseWindowTitle(window.app_name, window.title)
                    EXCEPT !.timestamp_us = now]
            outgoing ==
                IF current_context_.timestamp_us > 0
                THEN [current_context_ EXCEPT !.duration_in_context_s =
                        (now - current_context_.timestamp_us) \div UsPerSecond]
                ELSE current_context_
            now_productive == IsProductiveCategory(new_context.category)
            long_enough ==
                LongEnough(now - distraction_start_time_,
                           config_.min_distraction_for_recovery_ms * 1000)
        IN  /\ SaveIfMeaningful(outgoing)
            /\ state_' = NextState(state_, now_productive, long_enough)
            /\ IF state_ = "FOCUSED" /\ state_' = "DISTRACTED"
               THEN /\ distraction_start_time_' = now
                    /\ distraction_app_' = window.app_name
               ELSE UNCHANGED << distraction_start_time_, distraction_app_ >>
            /\ overlay_' = IF state_ = "DISTRACTED" /\ state_' = "RECOVERING"
                           THEN OverlayShow(overlay_) ELSE overlay_
            /\ focus_start_time_' = IF state_ = "DISTRACTED" /\ state_' = "FOCUSED"
                                    THEN now ELSE focus_start_time_
            /\ current_context_' =
                IF now_productive /\ state_' = "FOCUSED"
                THEN [new_context EXCEPT !.focus_streak_s =
                        (now - focus_start_time_') \div UsPerSecond]
                ELSE new_context
            /\ TrackerFrame /\ UNCHANGED t_inputs
            /\ UNCHANGED << config_, last_snapshot_time_, last_activity_time_, o_pc >>

\* void ContextTracker::on_keystroke()
OnKeystroke ==
    /\ InputEvent
    /\ current_context_' = [current_context_ EXCEPT !.keystrokes_in_context = @ + 1]
    /\ last_activity_time_' = now
    /\ TrackerFrame
    /\ UNCHANGED << history_, h_log, state_, config_, focus_start_time_,
                    distraction_start_time_, last_snapshot_time_,
                    distraction_app_, overlay_, o_pc >>

\* void ContextTracker::on_mouse_click()
OnMouseClick ==
    /\ InputEvent
    /\ current_context_' = [current_context_ EXCEPT !.mouse_clicks = @ + 1]
    /\ last_activity_time_' = now
    /\ TrackerFrame
    /\ UNCHANGED << history_, h_log, state_, config_, focus_start_time_,
                    distraction_start_time_, last_snapshot_time_,
                    distraction_app_, overlay_, o_pc >>

\* void ContextTracker::on_mouse_move(int dx, int dy), for moves of one pixel.
OnMouseMove ==
    \E dx \in {-1, 0}, dy \in {0, 1} :
        LET distance == (IF dx > 0 THEN dx ELSE -dx) + (IF dy > 0 THEN dy ELSE -dy)
        IN  /\ distance = 1
            /\ InputEvent
            /\ current_context_' =
                [current_context_ EXCEPT !.mouse_distance_px = @ + distance]
            /\ last_activity_time_' = now
            /\ TrackerFrame
            /\ UNCHANGED << history_, h_log, state_, config_, focus_start_time_,
                            distraction_start_time_, last_snapshot_time_,
                            distraction_app_, overlay_, o_pc >>

\* update: if (state_ == FOCUSED) { if (time_since_snapshot >=
\* config_.snapshot_interval_ms * 1000ULL) ...
\* Variant of SnapshotDue: the state is not looked at.
SnapshotDueAnyState(state, time_since_snapshot, interval_us) ==
    time_since_snapshot >= interval_us
SnapshotDue(state, time_since_snapshot, interval_us) ==
    /\ state = "FOCUSED"
    /\ time_since_snapshot >= interval_us

\* void ContextTracker::update(), with take_snapshot()
Update ==
    /\ IF SnapshotDue(state_, now - last_snapshot_time_,
                      config_.snapshot_interval_ms * 1000)
       THEN LET snapshot ==
                    [current_context_ EXCEPT
                        !.timestamp_us = now,
                        !.duration_in_context_s = (now - focus_start_time_) \div UsPerSecond,
                        !.is_productive = IF state_ = "FOCUSED" THEN 1 ELSE 0]
            IN  /\ current_context_' = snapshot
                /\ SaveIfMeaningful(snapshot)
                /\ last_snapshot_time_' = now
       ELSE UNCHANGED << current_context_, history_, h_log, last_snapshot_time_ >>
    /\ TrackerFrame /\ UNCHANGED t_inputs
    /\ UNCHANGED << state_, config_, focus_start_time_, distraction_start_time_,
                    last_activity_time_, distraction_app_, overlay_, o_pc >>

\* void ContextTracker::set_config(const TrackerConfig& config)
SetConfig ==
    /\ \E config \in ConfigSamples : config_' = config
    /\ TrackerFrame /\ UNCHANGED t_inputs
    /\ UNCHANGED << history_, h_log, state_, current_context_, focus_start_time_,
                    distraction_start_time_, last_snapshot_time_,
                    last_activity_time_, distraction_app_, overlay_, o_pc >>

\* void ContextTracker::force_show_overlay()
ForceShowOverlay ==
    /\ overlay_' = OverlayShow(overlay_)
    /\ TrackerFrame /\ UNCHANGED t_inputs
    /\ UNCHANGED << history_, h_log, state_, current_context_, config_,
                    focus_start_time_, distraction_start_time_,
                    last_snapshot_time_, last_activity_time_, distraction_app_, o_pc >>

\* RecoveryOverlay::WindowProc, WM_TIMER (the auto-dismiss timer is set) or
\* WM_KEYDOWN / WM_LBUTTONDOWN / WM_RBUTTONDOWN (the window is visible):
\* self->hide().
DismissHide ==
    /\ o_pc = "idle"
    /\ overlay_.visible \/ overlay_.timer
    /\ overlay_' = OverlayHide(overlay_)
    /\ o_pc' = "callback"
    /\ TrackerFrame /\ UNCHANGED t_inputs
    /\ UNCHANGED << history_, h_log, state_, current_context_, config_,
                    focus_start_time_, distraction_start_time_,
                    last_snapshot_time_, last_activity_time_, distraction_app_ >>

\* on_overlay_dismissed: if (state_ == DistractionState::RECOVERING).
\* Variant of DismissalActs: the dismissal acts in every state.
DismissalActsAlways(state) == state \in {"FOCUSED", "DISTRACTED", "RECOVERING"}
DismissalActs(state) == state = "RECOVERING"

\* ... then self->on_dismiss_(): void ContextTracker::on_overlay_dismissed()
OnOverlayDismissed ==
    /\ o_pc = "callback"
    /\ o_pc' = "idle"
    /\ IF DismissalActs(state_)
       THEN /\ state_' = "FOCUSED"
            /\ focus_start_time_' = now
            /\ current_context_' =
                [current_context_ EXCEPT !.keystrokes_in_context = 0,
                                         !.mouse_clicks = 0,
                                         !.mouse_distance_px = 0]
       ELSE UNCHANGED << state_, focus_start_time_, current_context_ >>
    /\ TrackerFrame /\ UNCHANGED t_inputs
    /\ UNCHANGED << history_, h_log, config_, distraction_start_time_,
                    last_snapshot_time_, last_activity_time_, distraction_app_,
                    overlay_ >>

\* Time passes.
Tick ==
    /\ t_ticks < MaxTicks
    /\ now' = now + ClockStep
    /\ t_ticks' = t_ticks + 1
    /\ UNCHANGED << ringVars, validityVars, contextHistoryVars, t_inputs, state_,
                    current_context_, config_, focus_start_time_,
                    distraction_start_time_, last_snapshot_time_,
                    last_activity_time_, distraction_app_, overlay_, o_pc >>

NextTracker ==
    \/ Start
    \/ Stop
    \/ OnWindowChange
    \/ OnKeystroke
    \/ OnMouseClick
    \/ OnMouseMove
    \/ Update
    \/ SetConfig
    \/ ForceShowOverlay
    \/ DismissHide
    \/ OnOverlayDismissed
    \/ Tick

SpecTracker == InitTracker /\ [][NextTracker]_vars

\* The tracker with the overlay's message loop running: a timer that is set
\* fires (WM_TIMER after auto_dismiss_ms), and the window procedure that has
\* hidden the overlay goes on to call on_dismiss_.  The fairness on the
\* dismissal is strong: an overlay that is shown again and again is dismissed
\* too, even if each show() restarts its timer.  Calls on the tracker are up
\* to its user; none is required to happen.
SpecTrackerLive ==
    /\ InitTracker
    /\ [][NextTracker]_vars
    /\ SF_vars(DismissHide)
    /\ WF_vars(OnOverlayDismissed)

\* ---------------------------------------------------------------- properties
\* The slots of the consumer-visible region [tail, head), oldest first.
Queue == [i \in 1 .. SizeOf(head, tail) |-> buffer[PopSlot(Add64(tail, i - 1))]]

\* The items pushed and not yet popped, oldest first.
Unpopped == SubSeq(pushed, Len(popped) + 1, Len(pushed))

\* C1: the k-th successful try_pop returns exactly the item of the k-th
\* successful try_push, under every interleaving of the two threads' steps.
FifoOrder ==
    /\ Len(popped) <= Len(pushed)
    /\ \A k \in 1 .. Len(popped) : popped[k] = pushed[k]

\* More items than the array has slots went through, all of them in order.
FifoWitness ==
    /\ c_pc = "idle"
    /\ Len(popped) > Size
    /\ popped = pushed

\* C2: in every reachable state 0 <= head - tail <= Size.
CapacityInvariant ==
    /\ 0 <= head - tail
    /\ head - tail <= Size
    /\ SizeOf(head, tail) <= Size

\* The fullest state, after pops have moved tail.
CapacityWitness ==
    /\ tail >= 1
    /\ head - tail = Size - 1

\* C3: from an empty buffer with no pops, Size consecutive try_push calls all
\* return true, call Size + 1 returns false, and size() is Size afterwards.
FillToCapacity ==
    (tail = 0 /\ p_pc = "idle") =>
        /\ pushCalls <= Size => pushFails = 0
        /\ pushCalls = Size + 1 =>
              (pushFails = 1 /\ p_result = "false" /\ SizeOf(head, tail) = Size)

\* C4: once the producer has returned from its calls and the consumer has
\* drained the buffer, successful pops + failed pushes = calls, and the popped
\* records are the accepted ones, none twice and none altered.
Conservation ==
    (p_pc = "idle" /\ c_pc = "idle" /\ head = tail) =>
        /\ Len(popped) + pushFails = pushCalls
        /\ popped = pushed
        /\ \A i, j \in 1 .. Len(popped) : i # j => popped[i] # popped[j]

\* All calls issued, some rejected, everything accepted drained.
ConservationWitness ==
    /\ pushCalls = MaxPushCalls
    /\ p_pc = "idle"
    /\ c_pc = "idle"
    /\ head = tail
    /\ pushFails >= 1
    /\ Len(popped) >= Size - 1

\* C5: size() and utilization() called from the statistics thread while
\* try_push and try_pop are in flight return size() <= Size and a utilization
\* in [0.0, 1.0].
BoundedSnapshot ==
    m_pc = "returned" =>
        /\ 0 <= m_size
        /\ m_size <= Size
        /\ 0 <= m_util.num
        /\ m_util.num <= m_util.den

PopOnEmpty ==
    [][ (c_pc = "load_head" /\ c_pc' # "load_head" /\ head = tail) =>
            /\ c_pc' = "idle"
            /\ c_result' = "false"
            /\ head' = head
            /\ tail' = tail
            /\ buffer' = buffer
            /\ c_item' = c_item ]_vars

\* A pop on the drained buffer returned false; the caller still holds the
\* item of its last successful pop.
PopOnEmptyWitness ==
    /\ c_pc = "idle"
    /\ c_result = "false"
    /\ head = tail
    /\ Len(popped) >= 1
    /\ c_item = popped[Len(popped)]

NoOverwrite ==
    p_pc \in {"write_ts", "write_data"} =>
        /\ \A i \in 0 .. (SizeOf(head, tail) - 1) :
               PushSlot(p_head) # PopSlot(Add64(tail, i))
        /\ c_pc \in {"read_ts", "read_data", "store_tail"} =>
               PushSlot(p_head) # PopSlot(c_tail)

\* Producer and consumer are both in the middle of a slot copy, the array has
\* wrapped and the push in flight will fill the buffer.
NoOverwriteWitness ==
    /\ p_pc = "write_data"
    /\ c_pc = "read_data"
    /\ head >= Size
    /\ SizeOf(head, tail) = Size - 2

\* C10: one push(x) on an empty buffer followed by a pop: the pop returns
\* true, its item equals x in every field, and the buffer is empty again.
RoundTrip ==
    [][ (c_pc = "store_tail" /\ c_pc' = "idle" /\ Add64(tail, 1) = head
            /\ Len(pushed) >= 1) =>
            /\ c_result' = "true"
            /\ c_item' = pushed[Len(pushed)]
            /\ head' = tail' ]_vars

\* The first call pushed x with a non-zero payload and the pop returned it.
RoundTripWitness ==
    /\ c_pc = "idle"
    /\ c_result = "true"
    /\ pushCalls = 1
    /\ popped = pushed
    /\ Len(popped) = 1
    /\ head = tail
    /\ c_item = MakeEvent(1, 1)

\* The steps of a try_push and of a try_pop after the call has begun.
PushStep == PushLoadTail \/ PushWriteTimestamp \/ PushWriteData \/ PushStoreHead
PopStep == PopLoadHead \/ PopReadTimestamp \/ PopReadData \/ PopStoreTail

\* How far a call has got: the number of its steps taken so far.
PushRank(pc) ==
    CASE pc = "load_tail" -> 1 [] pc = "write_ts" -> 2 [] pc = "write_data" -> 3
      [] pc = "store_head" -> 4 [] OTHER -> 0
PopRank(pc) ==
    CASE pc = "load_head" -> 1 [] pc = "read_ts" -> 2 [] pc = "read_data" -> 3
      [] pc = "store_tail" -> 4 [] OTHER -> 0

\* C11: try_push and try_pop are non-blocking.  A call in flight can always
\* take its next step, whatever state the other thread is in, and each of its
\* steps either returns or moves it strictly forward, so it returns within 5
\* of its own steps.
NonBlocking ==
    /\ [](p_pc # "idle" => ENABLED PushStep)
    /\ [](c_pc # "idle" => ENABLED PopStep)
    /\ [][PushStep => (p_pc' = "idle" \/ PushRank(p_pc') > PushRank(p_pc))]_vars
    /\ [][PopStep => (c_pc' = "idle" \/ PopRank(c_pc') > PopRank(c_pc))]_vars

\* The consumer has sat in the middle of its first try_pop while the producer
\* made and returned from all its calls, rejected ones included.
NonBlockingWitness ==
    /\ c_pc = "read_data"
    /\ Len(popped) = 0
    /\ p_pc = "idle"
    /\ pushCalls = MaxPushCalls
    /\ pushFails >= 2

\* The timestamps of the events of a sequence.
Stamps(seq) == { seq[i].timestamp_us : i \in 1 .. Len(seq) }

\* The calls of try_push that have returned, by call number (the timestamp of
\* the call's event), and those among them that returned false.
ReturnedCalls == IF p_pc = "idle" THEN 1 .. pushCalls ELSE 1 .. (pushCalls - 1)
RejectedCalls == ReturnedCalls \ Stamps(pushed)

\* The events that are still queued or have been handed to the consumer.
Kept == Stamps(Queue) \cup Stamps(popped)

SameHeadAccepted ==
    /\ p_pc = "idle"
    /\ q_pc = "idle"
    /\ p_result = "true"
    /\ q_result = "true"
    /\ p_head = q_head

\* C13: with two threads in try_push, two calls that loaded the same head both
\* return true and publish the same head value (they wrote the same slot), so
\* head has advanced by one for two accepted items and, as long as the
\* consumer has not run past head, at most one of the two is queued or has
\* been returned by a pop: the other is lost.
TwoProducersLoseItem ==
    SameHeadAccepted =>
        /\ head = NextHead(p_head)
        /\ SizeOf(head, tail) <= Size =>
            ~ (p_item.timestamp_us \in Kept /\ q_item.timestamp_us \in Kept)

\* Both calls returned true, the buffer has been drained, and one of the two
\* accepted items was never popped: pops + failed pushes < calls.
TwoProducersWitness ==
    /\ SameHeadAccepted
    /\ c_pc = "idle"
    /\ head = tail
    /\ pushCalls = 2
    /\ pushFails = 0
    /\ Len(pushed) = 2
    /\ Len(popped) = 1

\* The timestamp lies between 2020-01-01 and 2050-01-01, both included.
TimestampPlausible(ts) == ~ Less64(ts, MinTimestamp) /\ ~ Less64(MaxTimestamp, ts)
\* app_name holds a NUL among its 24 bytes.
NameTerminated(app_name) == \E i \in 0 .. (AppNameLen - 1) : app_name[i] = 0

\* C14: is_valid returns true exactly when the timestamp lies in the range
\* 2020-01-01 .. 2050-01-01, event_type is one of the known kinds and app_name
\* holds a NUL within its 24 bytes; for every other record it returns false.
ValidExactlyWhenWellFormed ==
    v_result # "none" =>
        ( v_result = "true" <=>
            /\ TimestampPlausible(v_event.timestamp_us)
            /\ v_event.event_type \in KnownEventTypes
            /\ NameTerminated(v_event.app_name) )

\* The smaller of two numbers.
Min(a, b) == IF a < b THEN a ELSE b
\* The i-th most recent push since the last clear, i counted from 0.
Recent(i) == h_log[Len(h_log) - i]

\* C15: after any sequence of push and clear calls 0 <= size() <= CAPACITY
\* and size() is the smaller of CAPACITY and the number of pushes since the
\* last clear; a push onto a full history leaves size() at CAPACITY.
HistoryBounded ==
    /\ [] /\ 0 <= HistorySize(history_)
          /\ HistorySize(history_) <= CAPACITY
          /\ HistorySize(history_) = Min(Len(h_log), CAPACITY)
    /\ [][ (HistorySize(history_) = CAPACITY /\ h_pushes' = h_pushes + 1)
            => HistorySize(history_') = CAPACITY ]_vars
\* A push onto a full history has happened, after an earlier clear of a
\* history that was not empty.
HistoryBoundedWitness ==
    /\ HistorySize(history_) = CAPACITY
    /\ Len(h_log) > CAPACITY
    /\ h_clears > 0
    /\ h_pushes > Len(h_log)

\* Indexes asked of get_at: every valid one and some past the end.
QueryIndexes == 0 .. (CAPACITY + 2)

\* C16: get_at(i) returns the (i+1)-th most recently pushed snapshot for every
\* i < size() and nullptr for i >= size(); get_last() is get_at(0), nullptr
\* when the history is empty; the retained snapshots are exactly the most
\* recent size() pushes.
RecencyOrder ==
    /\ \A i \in QueryIndexes :
        IF i < HistorySize(history_)
        THEN /\ GetAt(history_, i) # NullPtr
             /\ history_.snapshots_[GetAt(history_, i)] = Recent(i)
        ELSE GetAt(history_, i) = NullPtr
    /\ GetLast(history_) = GetAt(history_, 0)
    /\ HistorySize(history_) = 0 => GetLast(history_) = NullPtr
    /\ { history_.snapshots_[GetAt(history_, i)] : i \in 0 .. (HistorySize(history_) - 1) }
         = { Recent(i) : i \in 0 .. (Min(Len(h_log), CAPACITY) - 1) }
\* More than CAPACITY pushes since the last clear: the oldest are evicted and
\* the write position has wrapped.
RecencyWitness ==
    /\ Len(h_log) >= CAPACITY + 2
    /\ GetAt(history_, 0) = 1
    /\ history_.snapshots_[GetAt(history_, CAPACITY - 1)] = h_log[Len(h_log) - CAPACITY + 1]

\* The position from the end of the log of the most recent retained push with
\* the given name; the empty set if there is none.
RetainedWith(app_name) ==
    { i \in 0 .. (Min(Len(h_log), CAPACITY) - 1) : Recent(i).app_name = app_name }

\* C17: find_by_app(name) returns the most recently pushed retained snapshot
\* whose app_name is name, and nullptr when no retained snapshot has it.
FindMostRecent ==
    \A name \in QueryNames :
        IF RetainedWith(name) = {}
        THEN FindByApp(history_, name) = NullPtr
        ELSE /\ FindByApp(history_, name) # NullPtr
             /\ \E i \in RetainedWith(name) :
                 /\ \A j \in RetainedWith(name) : i <= j
                 /\ history_.snapshots_[FindByApp(history_, name)] = Recent(i)
\* Two retained snapshots of "Code.exe" with others after them in a history
\* that has wrapped, and, in another state, a "Code.exe" snapshot that has
\* been evicted.
FindTwoRetainedWitness ==
    /\ Len(h_log) > CAPACITY
    /\ Cardinality(RetainedWith("Code.exe")) = 2
    /\ 0 \notin RetainedWith("Code.exe")
    /\ FindByApp(history_, "Code.exe") # NullPtr
FindEvictedWitness ==
    /\ h_clears = 0
    /\ h_code > 0
    /\ RetainedWith("Code.exe") = {}
    /\ FindByApp(history_, "Code.exe") = NullPtr

\* The categories the enum lists as productive or potentially productive,
\* with UNKNOWN, and the ones it lists as distracting.
ProductiveCategories == {CATEGORY_UNKNOWN, IDE, TERMINAL, DOCUMENTATION, PRODUCTIVITY, BROWSER}
DistractingCategories == {SOCIAL_MEDIA, COMMUNICATION, ENTERTAINMENT, SHOPPING}

\* C18: after start() the state is FOCUSED whatever it was before, and an
\* on_window_change to a window of a productive category while FOCUSED leaves
\* the state FOCUSED.
StartFocuses ==
    [][ /\ Start => state_' = "FOCUSED"
        /\ ( /\ OnWindowChange
             /\ state_ = "FOCUSED"
             /\ current_context_'.category \in ProductiveCategories )
           => state_' = "FOCUSED" ]_vars
\* start() has been called, the tracker has never been distracted, and a
\* window of category IDE has just been reported.
StartFocusesWitness ==
    /\ state_ = "FOCUSED"
    /\ focus_start_time_ > 0
    /\ focus_start_time_ < now
    /\ distraction_start_time_ = 0
    /\ current_context_.category = IDE
    /\ current_context_.timestamp_us = now
\* start() has just been called after a distraction, with the overlay showing.
StartFromRecoveringWitness ==
    /\ state_ = "FOCUSED"
    /\ overlay_.visible
    /\ current_context_ = [ClearedSnapshot EXCEPT !.timestamp_us = now]
    /\ focus_start_time_ = now
    /\ distraction_start_time_ > 0
    /\ distraction_start_time_ < now

\* C19: while FOCUSED, on_window_change to a window whose category is not
\* productive moves the state to DISTRACTED and records the time and the app
\* of the distraction.
FocusedToDistracted ==
    [][ ( /\ OnWindowChange
          /\ state_ = "FOCUSED"
          /\ current_context_'.category \in DistractingCategories )
        => /\ state_' = "DISTRACTED"
           /\ distraction_start_time_' = now
           /\ distraction_app_' = current_context_'.app_name ]_vars
\* After start(), some time later, a Twitter tab has just been reported.
FocusedToDistractedWitness ==
    /\ state_ = "DISTRACTED"
    /\ focus_start_time_ > 0
    /\ focus_start_time_ < now
    /\ distraction_start_time_ = now
    /\ distraction_app_ = "chrome.exe"
    /\ current_context_.category = SOCIAL_MEDIA
    /\ current_context_.timestamp_us = now

ShortDistractionWitness ==
    /\ state_ = "FOCUSED"
    /\ ~ overlay_.visible
    /\ distraction_start_time_ > 0
    /\ distraction_start_time_ < now
    /\ now - distraction_start_time_ < config_.min_distraction_for_recovery_ms * 1000
    /\ focus_start_time_ = now
    /\ current_context_.category = IDE
    /\ current_context_.timestamp_us = now

\* C21: whenever the state is FOCUSED, the current context has a productive
\* category.  Stated for a tracker whose current context has been written
\* (start() has been called, or the tracker has returned to focus).
FocusedInProductive ==
    (state_ = "FOCUSED" /\ focus_start_time_ > 0) =>
        current_context_.category \in ProductiveCategories

\* C22: whenever the state is DISTRACTED, the current context has a category
\* that is not productive.
DistractedInDistracting ==
    state_ = "DISTRACTED" =>
        /\ current_context_.category \in DistractingCategories
        /\ ~ IsProductiveCategory(current_context_.category)
\* The user went from VS Code to Twitter and, a clock step later, a Twitter
\* window was reported again: still DISTRACTED, in the second window.
DistractedWitness ==
    /\ state_ = "DISTRACTED"
    /\ distraction_start_time_ > 0
    /\ distraction_start_time_ < now
    /\ current_context_.timestamp_us = now
    /\ current_context_.category = SOCIAL_MEDIA

\* C23: every time the state becomes RECOVERING the overlay is shown, it is
\* eventually dismissed and the dismissal returns the state to FOCUSED:
\* RECOVERING always leads to FOCUSED, whatever calls of stop(),
\* force_show_overlay() and on_window_change() are made in between.
RecoveringLeadsToFocused == (state_ = "RECOVERING") ~> (state_ = "FOCUSED")

\* C24: for every position p with tail <= p < head, slot p mod Size holds the
\* item of the push that advanced head from p to p + 1 (the (p+1)-th accepted
\* item).  try_push has written the whole slot when it publishes the new
\* head, and the slot a try_pop is reading holds the item of its position.
SlotsHoldPushedItems ==
    /\ \A p \in tail .. (head - 1) :
        /\ p + 1 <= Len(pushed)
        /\ buffer[p % Size] = pushed[p + 1]
    /\ p_pc = "store_head" => buffer[p_head % Size] = p_item
    /\ c_pc \in {"read_ts", "read_data", "store_tail"} =>
        /\ c_tail < head
        /\ buffer[c_tail % Size] = pushed[c_tail + 1]
\* The array has wrapped, Size - 1 items are queued and the consumer is in
\* the middle of reading the oldest while the producer starts its next call.
SlotsWitness ==
    /\ tail >= 2
    /\ head > Size
    /\ head - tail = Size - 1
    /\ c_pc = "read_data"
    /\ p_pc = "load_tail"

\* The calls that only inspect the buffer.
QueryStep == IsFullCall \/ IsEmptyCall \/ SizeLoadHead \/ SizeLoadTail \/ CapacityCall

\* C25: head changes only in try_push and tail only in try_pop; a call that
\* returns true advances its own counter by exactly 1 and a call that returns
\* false leaves it unchanged, so neither counter ever decreases; try_push
\* never changes tail, try_pop never changes head or a slot, and is_full,
\* is_empty, size, capacity and utilization change no counter and no slot.
CountersOwned ==
    [][ /\ head' # head => PushStoreHead
        /\ tail' # tail => PopStoreTail
        /\ PushStoreHead => (p_result' = "true" /\ head' = head + 1)
        /\ PopStoreTail => (c_result' = "true" /\ tail' = tail + 1)
        /\ (PushLoadTail /\ p_pc' = "idle") => (p_result' = "false" /\ head' = head)
        /\ (PopLoadHead /\ c_pc' = "idle") => (c_result' = "false" /\ tail' = tail)
        /\ head' >= head
        /\ tail' >= tail
        /\ (PushBegin \/ PushStep) => tail' = tail
        /\ (PopBegin \/ PopStep) => (head' = head /\ buffer' = buffer)
        /\ QueryStep => (head' = head /\ tail' = tail /\ buffer' = buffer) ]_vars
\* Every member function has been called: pushes accepted and rejected, pops
\* that returned true and one that returned false, is_full, is_empty, size,
\* utilization and capacity.
CountersOwnedWitness ==
    /\ pushFails >= 1
    /\ head = Size - 1
    /\ tail = head
    /\ p_pc = "idle"
    /\ c_pc = "idle"
    /\ c_result = "false"
    /\ p_full.result = "true"
    /\ c_empty.result = "false"
    /\ m_pc = "returned"
    /\ m_size = 1
    /\ m_capacity = Capacity

\* C26: the producer writes slot head mod Size only after having observed
\* head - tail < Size, the consumer reads slot tail mod Size only after
\* having observed tail # head, and try_push succeeds whenever it observes
\* head - tail < Size.
GuardedSlotAccess ==
    [][ /\ (PushLoadTail /\ p_pc' = "write_ts") => Sub64(p_head, tail) < Size
        /\ (PushWriteTimestamp \/ PushWriteData) =>
               buffer' = [buffer EXCEPT ![head % Size] = buffer'[head % Size]]
        /\ (PopLoadHead /\ c_pc' = "read_ts") => c_tail # head
        /\ (PopReadTimestamp \/ PopReadData) =>
               c_item' \in { CopyTimestamp(c_item, buffer[tail % Size]),
                             CopyData(c_item, buffer[tail % Size]) }
        /\ (PushLoadTail /\ Sub64(p_head, tail) < Size) => p_pc' = "write_ts" ]_vars

\* What a run's callers can observe of the buffer apart from the items: the
\* counters, size(), where each call stands and what the calls returned.
Observable(r) ==
    << r.head, r.tail, SizeOf(r.head, r.tail), r.p_pc, r.p_head, r.p_result,
       r.c_pc, r.c_tail, r.c_result, r.pushCalls, r.pushFails,
       Len(r.pushed), Len(r.popped) >>
\* The items of a sequence that are not valid.
InvalidIn(seq) == { i \in 1 .. Len(seq) : ~ ItemValid(seq[i]) }

\* C27: the buffer performs no validation.  In two runs under the same
\* schedule that differ only in the items pushed (valid or not), every
\* try_push and try_pop returns the same boolean and head, tail and size()
\* are the same at every step; in each run the items popped are the items
\* accepted, in order and unchanged, the invalid ones among them.
NoValidation ==
    /\ Observable(runs[1]) = Observable(runs[2])
    /\ \A k \in 1 .. 2 :
        /\ Len(runs[k].popped) <= Len(runs[k].pushed)
        /\ runs[k].popped = SubSeq(runs[k].pushed, 1, Len(runs[k].popped))
\* The first run pushed valid items only and the second invalid ones only;
\* in both the same three calls were accepted and the fourth rejected, and
\* the three items have been popped.
NoValidationWitness ==
    /\ runs[1].pushCalls = MaxTwinPushCalls
    /\ runs[1].pushFails = 1
    /\ runs[2].pushFails = 1
    /\ Len(runs[1].popped) = Size - 1
    /\ Len(runs[2].popped) = Size - 1
    /\ InvalidIn(runs[1].popped) = {}
    /\ InvalidIn(runs[2].popped) = 1 .. (Size - 1)
    /\ runs[1].c_pc = "idle"
    /\ runs[2].c_pc = "idle"

StaleViewConservative ==
    /\ [][ /\ (PushLoadTail /\ p_pc' = "idle") =>
                  (IsFull(head, tail) /\ SizeOf(head, tail) = Capacity - 1)
           /\ (PopLoadHead /\ c_pc' = "idle") =>
                  (IsEmpty(tail, head) /\ SizeOf(head, tail) = 0) ]_vars
    /\ [] /\ p_pc \in {"write_ts", "write_data", "store_head"} =>
               /\ p_head = head
               /\ SizeOf(head, tail) < Capacity - 1
               /\ \A k \in 0 .. (SizeOf(head, tail) - 1) :
                      PushSlot(p_head) # PopSlot(Add64(tail, k))
          /\ c_pc \in {"read_ts", "read_data", "store_tail"} =>
               /\ c_tail = tail
               /\ SizeOf(head, tail) >= 1
               /\ SizeOf(head, tail) <= Capacity - 1
\* A try_push returned false and, before the producer's next call, a pop has
\* made room: the failure is out of date when the caller acts on it.  The
\* consumer meanwhile reads on a view of head that two pushes have outdated.
StaleFailureWitness ==
    /\ p_pc = "idle"
    /\ p_result = "false"
    /\ ~ IsFull(head, tail)
    /\ pushFails = 1
    /\ c_pc = "idle"
StaleSuccessWitness ==
    /\ c_pc = "read_data"
    /\ c_tail = 0
    /\ head = 2
    /\ p_pc = "write_data"

\* The producer's last is_full() returned false and no try_push of its has
\* returned true since; likewise for the consumer's is_empty().
NotFullSeen == p_full.result = "false" /\ p_full.count = Len(pushed)
NotEmptySeen == c_empty.result = "false" /\ c_empty.count = Len(popped)

\* C30: if the producer's is_full() returns false, its next try_push returns
\* true whatever the consumer does in between, and if the consumer's
\* is_empty() returns false, its next try_pop returns true whatever the
\* producer does in between; with no call in flight is_full() is true exactly
\* when try_push would return false and is_empty() exactly when try_pop would.
QueriesReliable ==
    /\ [][ /\ (PushLoadTail /\ NotFullSeen) => p_pc' = "write_ts"
           /\ (PushStoreHead /\ NotFullSeen) => p_result' = "true"
           /\ (PopLoadHead /\ NotEmptySeen) => c_pc' = "read_ts"
           /\ (PopStoreTail /\ NotEmptySeen) => c_result' = "true"
           /\ (IsFullCall /\ c_pc = "idle") =>
                  (p_full'.result = "true" <=> PushFull(NextHead(head), tail))
           /\ (IsEmptyCall /\ p_pc = "idle") =>
                  (c_empty'.result = "true" <=> PopEmpty(tail, head)) ]_vars
    /\ [] /\ NotFullSeen => ~ PushFull(NextHead(head), tail)
          /\ NotEmptySeen => ~ PopEmpty(tail, head)
\* is_full() returned false with Size - 2 items queued and is_empty() false
\* with one; each thread's next call, overlapping the other's, returned true.
QueriesReliableWitness ==
    /\ p_full = QueryResult(FALSE, Size - 2)
    /\ Len(pushed) = Size - 1
    /\ p_pc = "idle"
    /\ p_result = "true"
    /\ c_empty.result = "false"
    /\ c_empty.count = Len(popped) - 1
    /\ c_pc = "idle"
    /\ c_result = "true"
\* With no call in flight is_full() has returned true and is_empty() false on
\* the buffer holding Size - 1 items.
QueriesQuiescentWitness ==
    /\ p_pc = "idle"
    /\ c_pc = "idle"
    /\ p_full = QueryResult(TRUE, Len(pushed))
    /\ c_empty = QueryResult(FALSE, Len(popped))
    /\ SizeOf(head, tail) = Capacity - 1

\* C31: with head and tail CounterBits wide (arithmetic mod 2^CounterBits)
\* and Size a power of two below 2^CounterBits, the full test, the empty
\* test and the masked index keep FIFO order and the bound on queued items
\* while head and tail wrap: the pops return the accepted items in order, the
\* slots from tail to head hold the items not yet popped, their number is
\* head - tail mod 2^CounterBits and at most Size - 1, and a pop fails only
\* on the empty buffer and a push only on the full one.
WrapSafe ==
    /\ [] /\ Size < CounterModulus
          /\ Len(popped) <= Len(pushed)
          /\ popped = SubSeq(pushed, 1, Len(popped))
          /\ SizeOf(head, tail) = Len(pushed) - Len(popped)
          /\ SizeOf(head, tail) <= Size - 1
          /\ Queue = Unpopped
    /\ [][ /\ (PushLoadTail /\ p_pc' = "idle") =>
                  Len(pushed) - Len(popped) = Size - 1
           /\ (PopLoadHead /\ c_pc' = "idle") => Len(pushed) = Len(popped)
           /\ PushStoreHead => PushSlot(head') = (PushSlot(head) + 1) % Size
           /\ PopStoreTail => PopSlot(tail') = (PopSlot(tail) + 1) % Size ]_vars
\* head has wrapped and tail has not: Size - 1 items are queued across the
\* wrap point and the push that came next was rejected.
WrapWitness ==
    /\ head < tail
    /\ SizeOf(head, tail) = Size - 1
    /\ p_pc = "idle"
    /\ p_result = "false"
    /\ Len(popped) >= 1
\* Both counters have wrapped and every accepted item has been popped.
WrapDrainedWitness ==
    /\ head < WrapDistance + 1
    /\ tail = head
    /\ head >= 1
    /\ c_pc = "idle"
    /\ popped = pushed
    /\ Len(popped) > WrapDistance

\* C32: while the tracker is RECOVERING, no on_window_change (to a productive
\* or a non-productive window), update, on_keystroke, on_mouse_click or
\* on_mouse_move call changes the state; the state leaves RECOVERING only
\* when the overlay's dismissal is delivered or start() is called.
StaysRecovering ==
    [][ /\ ( /\ state_ = "RECOVERING"
             /\ \/ OnWindowChange
                \/ Update
                \/ OnKeystroke
                \/ OnMouseClick
                \/ OnMouseMove ) => state_' = "RECOVERING"
        /\ (state_ = "RECOVERING" /\ state_' # "RECOVERING") =>
                (OnOverlayDismissed \/ Start) ]_vars
\* RECOVERING is entered on a productive window only, so a non-productive
\* current context in RECOVERING is the trace of a window change made during
\* the recovery; the overlay is still waiting to be dismissed.
StaysRecoveringWitness ==
    /\ state_ = "RECOVERING"
    /\ ~ IsProductiveCategory(current_context_.category)
    /\ overlay_.visible

\* C33: the overlay's dismissal changes the tracker only in RECOVERING.
\* There it sets the state to FOCUSED, restarts the focus timer and sets the
\* current context's keystroke, click and mouse-distance counters to 0 (the
\* context's other fields stay); delivered in FOCUSED or DISTRACTED it leaves
\* state, focus timer and current context as they are.  Either way the
\* history, the configuration and the other timers are untouched.
DismissalOnlyInRecovering ==
    [][ OnOverlayDismissed =>
          /\ IF state_ = "RECOVERING"
             THEN /\ state_' = "FOCUSED"
                  /\ focus_start_time_' = now
                  /\ current_context_'.keystrokes_in_context = 0
                  /\ current_context_'.mouse_clicks = 0
                  /\ current_context_'.mouse_distance_px = 0
                  /\ \A f \in DOMAIN current_context_ \
                            {"keystrokes_in_context", "mouse_clicks",
                             "mouse_distance_px"} :
                        current_context_'[f] = current_context_[f]
             ELSE /\ state_ \in {"FOCUSED", "DISTRACTED"}
                  /\ UNCHANGED << state_, focus_start_time_, current_context_ >>
          /\ UNCHANGED << history_, config_, distraction_start_time_,
                          last_snapshot_time_, last_activity_time_,
                          distraction_app_, overlay_ >> ]_vars
\* The dismissal has been delivered in RECOVERING.  After start() a FOCUSED
\* tracker whose current context is non-productive exists only through the
\* dismissal: the FOCUSED state is entered on a productive window and left on
\* a non-productive one, and only the RECOVERING state lets one pass.
DismissalWitness ==
    /\ state_ = "FOCUSED"
    /\ o_pc = "idle"
    /\ focus_start_time_ = now
    /\ last_snapshot_time_ > 0
    /\ ~ IsProductiveCategory(current_context_.category)
    /\ current_context_.keystrokes_in_context = 0
    /\ current_context_.mouse_clicks = 0
    /\ current_context_.mouse_distance_px = 0
    /\ t_inputs > 0

\* C34: the tracker's state changes only in start(), on_window_change() and
\* the overlay's dismissal, and only along FOCUSED -> DISTRACTED,
\* DISTRACTED -> RECOVERING, DISTRACTED -> FOCUSED and RECOVERING -> FOCUSED:
\* RECOVERING is entered only from DISTRACTED and left only to FOCUSED,
\* DISTRACTED is entered only from FOCUSED, and on_keystroke, on_mouse_click,
\* on_mouse_move, update, set_config and stop leave the state as it is.
DocumentedEdges ==
    { << "FOCUSED", "DISTRACTED" >>, << "DISTRACTED", "RECOVERING" >>,
      << "DISTRACTED", "FOCUSED" >>, << "RECOVERING", "FOCUSED" >> }
OnlyDocumentedEdges ==
    [][ /\ state_' # state_ =>
              /\ Start \/ OnWindowChange \/ OnOverlayDismissed
              /\ << state_, state_' >> \in DocumentedEdges
        /\ state_' = "RECOVERING" => state_ \in {"DISTRACTED", "RECOVERING"}
        /\ state_ = "RECOVERING" => state_' \in {"FOCUSED", "RECOVERING"}
        /\ state_' = "DISTRACTED" => state_ \in {"FOCUSED", "DISTRACTED"}
        /\ ( \/ OnKeystroke
             \/ OnMouseClick
             \/ OnMouseMove
             \/ Update
             \/ SetConfig
             \/ Stop ) => state_' = state_ ]_vars
\* The tracker has gone FOCUSED -> DISTRACTED -> RECOVERING and stop() was
\* called there: the overlay is hidden with no dismissal under way, and
\* the state is still RECOVERING.
OnlyDocumentedEdgesWitness ==
    /\ state_ = "RECOVERING"
    /\ ~ overlay_.visible
    /\ ~ overlay_.timer
    /\ o_pc = "idle"
    /\ distraction_start_time_ > 0
    /\ now - distraction_start_time_ >= ShortConfig.min_distraction_for_recovery_ms * 1000

\* C35: update() takes a periodic snapshot only while the state is FOCUSED
\* and only when at least snapshot_interval_ms has passed since the last
\* periodic snapshot (or start()); the snapshot is the current context
\* stamped with the time, and it enters the history if it is meaningful.  An
\* update() that comes earlier, or in DISTRACTED or RECOVERING, changes
\* neither the history nor the current context.
PeriodicSnapshotOnlyFocused ==
    [][ Update =>
          IF /\ state_ = "FOCUSED"
             /\ now - last_snapshot_time_ >= config_.snapshot_interval_ms * 1000
          THEN /\ current_context_'.timestamp_us = now
               /\ last_snapshot_time_' = now
               /\ IF IsMeaningful(current_context_')
                  THEN h_log' = Append(h_log, current_context_')
                  ELSE UNCHANGED << history_, h_log >>
          ELSE UNCHANGED << history_, h_log, current_context_,
                            last_snapshot_time_ >> ]_vars
\* update() has just put a periodic snapshot into the history: the snapshot
\* timer is younger than the focus timer, which start() never leaves behind,
\* and the newest history entry carries the current time.
PeriodicSnapshotWitness ==
    /\ state_ = "FOCUSED"
    /\ last_snapshot_time_ = now
    /\ focus_start_time_ > 0
    /\ focus_start_time_ < now
    /\ Len(h_log) > 0
    /\ h_log[Len(h_log)] = current_context_
    /\ current_context_.timestamp_us = now
    /\ current_context_.is_productive = 1

\* C36: a snapshot enters the tracker's history only if it is meaningful
\* (non-empty app name, at least 5 seconds in context, at least one keystroke
\* or mouse click): every snapshot the history holds is meaningful, and a
\* step of on_window_change or update changes the history only by pushing a
\* meaningful snapshot (the outgoing context, or the current context of
\* take_snapshot).
WorthKeeping(snapshot) ==
    /\ snapshot.app_name # ""
    /\ snapshot.duration_in_context_s >= 5
    /\ snapshot.keystrokes_in_context >= 1 \/ snapshot.mouse_clicks >= 1
HistoryHoldsMeaningful ==
    /\ [] \A index \in 0 .. (HistorySize(history_) - 1) :
            WorthKeeping(history_.snapshots_[GetAt(history_, index)])
    /\ [][ (history_' # history_ /\ ~ Stop) =>
              /\ OnWindowChange \/ Update
              /\ HistorySize(history_') = HistorySize(history_) + 1
              /\ WorthKeeping(history_'.snapshots_[GetLast(history_')])
              /\ \/ /\ Update
                    /\ history_'.snapshots_[GetLast(history_')] = current_context_'
                 \/ /\ OnWindowChange
                    /\ history_'.snapshots_[GetLast(history_')].app_name
                            = current_context_.app_name ]_vars
\* After start(), on_window_change has pushed the context the user left: the
\* history's one entry began after start() and is older than the current
\* context, which belongs to another application.
HistoryHoldsMeaningfulWitness ==
    /\ last_snapshot_time_ > 0
    /\ HistorySize(history_) = 1
    /\ history_.snapshots_[GetLast(history_)].app_name # current_context_.app_name
    /\ history_.snapshots_[GetLast(history_)].timestamp_us >= last_snapshot_time_
    /\ current_context_.timestamp_us > history_.snapshots_[GetLast(history_)].timestamp_us
    /\ current_context_.app_name # ""
\* take_snapshot has pushed the current context.
SnapshotKeptWitness ==
    /\ HistorySize(history_) >= 1
    /\ history_.snapshots_[GetLast(history_)] = current_context_
    /\ current_context_.timestamp_us = last_snapshot_time_
    /\ focus_start_time_ > 0

====
